---------------------------- MODULE Spec2Model ----------------------------
(***************************************************************************)
(* Model of audit-run.py: the Rancher / KWOK audit-log analyzer.           *)
(*                                                                         *)
(* Python strings are sequences of one-character strings, so that split,   *)
(* strip, startswith, substring search and the regular expression of       *)
(* extract_cluster_id are computed on characters as the code computes      *)
(* them.  A JSON value is a record tagged by its type (field t).           *)
(***************************************************************************)
EXTENDS Integers, Sequences, FiniteSets, TLC

(***************************************************************************)
(* String literals of the source.                                          *)
(***************************************************************************)
Str_cattle_system == <<"c","a","t","t","l","e","-","s","y","s","t","e","m","-">>
Str_cattle == <<"c","a","t","t","l","e","-">>
Str_rancher == <<"r","a","n","c","h","e","r","-">>
Str_kwok_admin == <<"k","w","o","k","-","a","d","m","i","n">>
Str_system_apiserver == <<"s","y","s","t","e","m",":","a","p","i","s","e","r","v","e","r">>
Str_system_prefix == <<"s","y","s","t","e","m",":">>
Str_kwok_system == <<"k","w","o","k","-","s","y","s","t","e","m">>
Str_unknown == <<"u","n","k","n","o","w","n">>
Str_core == <<"c","o","r","e">>
Str_v1 == <<"v","1">>
Str_api == <<"a","p","i">>
Str_apis == <<"a","p","i","s">>
Str_namespaces == <<"n","a","m","e","s","p","a","c","e","s">>
Str_watch_true == <<"w","a","t","c","h","=","t","r","u","e">>
Str_ResponseComplete == <<"R","e","s","p","o","n","s","e","C","o","m","p","l","e","t","e">>
Str_ResponseStarted == <<"R","e","s","p","o","n","s","e","S","t","a","r","t","e","d">>

(***************************************************************************)
(* Python str methods used by the source.                                  *)
(***************************************************************************)
\* s[i:] starts with p (1-based i)
MatchesAt(s, p, i) ==
    /\ i >= 1
    /\ i + Len(p) - 1 <= Len(s)
    /\ \A k \in 1..Len(p) : s[i + k - 1] = p[k]

\* str.startswith
StartsWith(s, p) == MatchesAt(s, p, 1)

\* the `in` operator on strings: p is a substring of s
Contains(s, p) == \E i \in 1..(Len(s) + 1) : MatchesAt(s, p, i)

\* index of the first c at or after position i, 0 when there is none
RECURSIVE IndexFrom(_, _, _)
IndexFrom(s, c, i) ==
    IF i > Len(s) THEN 0
    ELSE IF s[i] = c THEN i
    ELSE IndexFrom(s, c, i + 1)

\* str.split(c): the segments between the occurrences of c (at least one)
RECURSIVE Split(_, _)
Split(s, c) ==
    LET j == IndexFrom(s, c, 1)
    IN  IF j = 0 THEN <<s>>
        ELSE <<SubSeq(s, 1, j - 1)>> \o Split(SubSeq(s, j + 1, Len(s)), c)

\* str.strip(c): leading and trailing occurrences of c removed
RECURSIVE Strip(_, _)
Strip(s, c) ==
    IF s = <<>> THEN s
    ELSE IF s[1] = c THEN Strip(Tail(s), c)
    ELSE IF s[Len(s)] = c THEN Strip(SubSeq(s, 1, Len(s) - 1), c)
    ELSE s

(***************************************************************************)
(* JSON values as json.loads returns them.  null decodes to None, which is *)
(* also what parse_log_line returns for a line that is not JSON.           *)
(* An ISO-8601 timestamp string is kept abstract: iso says how             *)
(* datetime.fromisoformat reads it ("Z": with a zone, "naive": without     *)
(* one) and sec is the instant.                                            *)
(***************************************************************************)
JV(t, s, iso, sec) == [t |-> t, s |-> s, iso |-> iso, sec |-> sec]
None == JV("null", <<>>, "", 0)
Absent == JV("absent", <<>>, "", 0)
JStr(s) == JV("str", s, "", 0)
JNumber(n) == JV("number", <<>>, "", n)
JList(n) == JV("list", <<>>, "", n)
JIso(iso, sec) == JV("str", <<>>, iso, sec)
JUser(username) == [t |-> "object", username |-> username]
JEntry(ts, user, uri, verb, stage, other) ==
    [t |-> "object", requestReceivedTimestamp |-> ts, user |-> user,
     requestURI |-> uri, verb |-> verb, stage |-> stage,
     userAgent |-> Absent, other |-> other]

\* len() of a decoded object: the keys it holds
EntryIsEmpty(e) ==
    /\ e.requestReceivedTimestamp = Absent
    /\ e.user = Absent
    /\ e.requestURI = Absent
    /\ e.verb = Absent
    /\ e.stage = Absent
    /\ e.userAgent = Absent
    /\ ~e.other

\* `if entry:` under a plausible slip: only None is skipped
IsTruthy_NotNone(v) == v.t # "null"

\* Python truth value of a decoded JSON value (`if entry:`, `if not entry:`)
IsTruthy(v) ==
    CASE v.t = "null" -> FALSE
      [] v.t = "object" -> ~EntryIsEmpty(v)
      [] v.t = "str" -> v.s # <<>> \/ v.iso # ""
      [] v.t = "number" -> v.sec # 0
      [] v.t = "list" -> v.sec # 0
      [] OTHER -> TRUE

\* dict.get(key, default) on a field of a decoded object
Get(field, default) == IF field = Absent THEN default ELSE field

\* parse_log_line: the decoded value, None when json.loads raises
ParseLogLine(line) == IF line.json THEN line.value ELSE None

(***************************************************************************)
(* extract_cluster_id                                                      *)
(***************************************************************************)
\* re.search(r'cattle-system-([^:]+):cattle-([^:]+)', username) matches at i:
\* group 1 runs to the first colon, is not empty, and cattle- plus one
\* more character that is no colon follows the colon
CattleMatchAt(username, i) ==
    /\ MatchesAt(username, Str_cattle_system, i)
    /\ LET j == IndexFrom(username, ":", i + Len(Str_cattle_system))
       IN  /\ j > i + Len(Str_cattle_system)
           /\ MatchesAt(username, Str_cattle, j + 1)
           /\ j + Len(Str_cattle) + 1 <= Len(username)
           /\ username[j + Len(Str_cattle) + 1] # ":"

\* cattle_match.group(1) of the leftmost match, <<>> when nothing matches
CattleGroup1(username) ==
    LET starts == {i \in 1..Len(username) : CattleMatchAt(username, i)}
    IN  IF starts = {} THEN <<>>
        ELSE LET i == CHOOSE k \in starts : \A m \in starts : k <= m
                 j == IndexFrom(username, ":", i + Len(Str_cattle_system))
             IN  SubSeq(username, i + Len(Str_cattle_system), j - 1)

\* extract_cluster_id on a username that is a str
ExtractClusterId(username) ==
    IF CattleGroup1(username) # <<>>
    THEN Str_rancher \o CattleGroup1(username)
    ELSE IF \/ username \in {Str_kwok_admin, Str_system_apiserver}
            \/ StartsWith(username, Str_system_prefix)
    THEN Str_kwok_system
    ELSE Str_unknown

(***************************************************************************)
(* analyze_request_uri (query_params is not modelled: nothing reads it)    *)
(***************************************************************************)
NoNamespace == [set |-> FALSE, name |-> <<>>]
SomeNamespace(name) == [set |-> TRUE, name |-> name]

ResourceInfo(api_group, version, resource, namespaced, namespace) ==
    [api_group |-> api_group, version |-> version, resource |-> resource,
     namespaced |-> namespaced, namespace |-> namespace]

\* uri.split('?')[0]
BaseUri(uri) == Split(uri, "?")[1]

AnalyzeRequestUri(uri) ==
    LET parts == Split(Strip(BaseUri(uri), "/"), "/")
        n == Len(parts)
    IN  IF n >= 2 /\ parts[1] = Str_api
        THEN IF n > 2
             THEN IF parts[3] = Str_namespaces /\ n > 3
                  THEN ResourceInfo(Str_core, parts[2],
                                    IF n > 4 THEN parts[5] ELSE Str_namespaces,
                                    TRUE, SomeNamespace(parts[4]))
                  ELSE ResourceInfo(Str_core, parts[2], parts[3], FALSE, NoNamespace)
             ELSE ResourceInfo(Str_core, parts[2], Str_unknown, FALSE, NoNamespace)
        ELSE IF n >= 2 /\ parts[1] = Str_apis /\ n > 2
        THEN IF n > 3
             THEN IF parts[4] = Str_namespaces /\ n > 4
                  THEN ResourceInfo(parts[2], parts[3],
                                    IF n > 5 THEN parts[6] ELSE Str_unknown,
                                    TRUE, SomeNamespace(parts[5]))
                  ELSE ResourceInfo(parts[2], parts[3], parts[4], FALSE, NoNamespace)
             ELSE ResourceInfo(parts[2], parts[3], Str_unknown, FALSE, NoNamespace)
        ELSE ResourceInfo(Str_core, Str_v1, Str_unknown, FALSE, NoNamespace)

\* is_watch_request
IsWatchRequest(uri) == Contains(uri, Str_watch_true)

(***************************************************************************)
(* analyze_entry                                                           *)
(***************************************************************************)
\* a parsed timestamp: None, or a datetime with or without a zone
NoTime == [kind |-> "none", at |-> 0]

\* datetime.fromisoformat(timestamp.replace('Z', '+00:00')) inside
\* try/except: None for a value that is no str or does not parse
ParseTimestamp(timestamp) ==
    IF timestamp.t = "str" /\ timestamp.iso = "Z"
    THEN [kind |-> "aware", at |-> timestamp.sec]
    ELSE IF timestamp.t = "str" /\ timestamp.iso = "naive"
    THEN [kind |-> "naive", at |-> timestamp.sec]
    ELSE NoTime

\* Counter()[key] += 1
Inc(counter, key) ==
    [k \in DOMAIN counter \cup {key} |->
        IF k = key
        THEN (IF key \in DOMAIN counter THEN counter[key] ELSE 0) + 1
        ELSE counter[k]]

\* the value the defaultdict builds for a cluster id it sees first
NewCluster ==
    [requests |-> <<>>, endpoints |-> <<>>, verbs |-> <<>>, resources |-> <<>>,
     watch_streams |-> <<>>, namespaces_accessed |-> {},
     first_seen |-> NoTime, last_seen |-> NoTime]

\* the filter under a plausible slip: every stage is analyzed
StageAnalyzed_All(stage) == TRUE

\* `stage not in ['ResponseComplete', 'ResponseStarted']` is false
StageAnalyzed(stage) ==
    /\ stage.t = "str"
    /\ stage.iso = ""
    /\ stage.s \in {Str_ResponseComplete, Str_ResponseStarted}

\* the write under a plausible slip: one namespace set shared by all the
\* clusters (a mutable default built once)
PutCluster_SharedNamespaces(clusters, cluster_id, cluster_data) ==
    [c \in DOMAIN clusters \cup {cluster_id} |->
        IF c = cluster_id THEN cluster_data
        ELSE [clusters[c] EXCEPT
                 !.namespaces_accessed = cluster_data.namespaces_accessed]]

\* self.clusters after cluster_data, the entry of cluster_id, was mutated
PutCluster(clusters, cluster_id, cluster_data) ==
    [c \in DOMAIN clusters \cup {cluster_id} |->
        IF c = cluster_id THEN cluster_data ELSE clusters[c]]

\* a dict key must be hashable: a list or a dict is not
Hashable(v) == v.t \notin {"list", "object"}

\* lines 174-178: first_seen and last_seen widened by ts
Widen(cluster_data, ts) ==
    LET first_seen == IF cluster_data.first_seen = NoTime
                         \/ ts.at < cluster_data.first_seen.at
                      THEN ts ELSE cluster_data.first_seen
        last_seen == IF cluster_data.last_seen = NoTime
                        \/ ts.at > cluster_data.last_seen.at
                     THEN ts ELSE cluster_data.last_seen
    IN  [cluster_data EXCEPT !.first_seen = first_seen, !.last_seen = last_seen]

\* a datetime with a zone and one without do not compare: TypeError
Comparable(ts, seen) == seen = NoTime \/ seen.kind = ts.kind

\* the analyzer's fields, and whether the call raised
Analyzer(clusters, cluster_order, system_requests, total_requests, raised) ==
    [clusters |-> clusters, cluster_order |-> cluster_order,
     system_requests |-> system_requests, total_requests |-> total_requests,
     raised |-> raised]

Raise(a) == [a EXCEPT !.raised = TRUE]

\* lines 153-178: the request stored under its cluster id
Aggregate(a, cluster_id, request_data) ==
    IF cluster_id = Str_kwok_system
    THEN [a EXCEPT !.system_requests = Append(@, request_data)]
    ELSE
    LET known == cluster_id \in DOMAIN a.clusters
        cluster_order == IF known THEN a.cluster_order
                         ELSE Append(a.cluster_order, cluster_id)
        d0 == IF known THEN a.clusters[cluster_id] ELSE NewCluster
        d1 == [d0 EXCEPT !.requests = Append(@, request_data),
                         !.endpoints = Inc(@, BaseUri(request_data.uri))]
        info == request_data.resource_info
        d2 == [d1 EXCEPT
                 !.verbs = Inc(@, request_data.verb),
                 !.resources = Inc(@, info.api_group \o <<"/">> \o info.resource),
                 !.namespaces_accessed =
                     IF info.namespace.set /\ info.namespace.name # <<>>
                     THEN @ \cup {info.namespace.name} ELSE @,
                 !.watch_streams =
                     IF IsWatchRequest(request_data.uri)
                     THEN Append(@, request_data) ELSE @]
        ts == request_data.parsed_timestamp
        with(d) == [a EXCEPT !.clusters = PutCluster(a.clusters, cluster_id, d),
                             !.cluster_order = cluster_order]
    IN  IF ~Hashable(request_data.verb) THEN Raise(with(d1))
        ELSE IF ts = NoTime THEN with(d2)
        ELSE IF ~Comparable(ts, d2.first_seen) THEN Raise(with(d2))
        ELSE with(Widen(d2, ts))

\* analyze_entry: the analyzer after the call
AnalyzeEntry(a, entry) ==
    IF ~IsTruthy(entry) THEN a
    ELSE
    LET counted == [a EXCEPT !.total_requests = @ + 1]
    IN  IF entry.t # "object" THEN Raise(counted)      \* entry.get
        ELSE
        LET timestamp == Get(entry.requestReceivedTimestamp, None)
            user == Get(entry.user, JUser(Absent))
            uri == Get(entry.requestURI, JStr(<<>>))
            verb == Get(entry.verb, JStr(<<>>))
            stage == Get(entry.stage, JStr(<<>>))
        IN  IF ~StageAnalyzed(stage) THEN counted
            ELSE IF user.t # "object" THEN Raise(counted)      \* user_info.get
            ELSE IF Get(user.username, JStr(<<>>)).t # "str"
            THEN Raise(counted)                                \* re.search
            ELSE IF uri.t # "str" THEN Raise(counted)          \* uri.split
            ELSE
            LET username == Get(user.username, JStr(<<>>)).s
                request_data ==
                    [timestamp |-> timestamp,
                     parsed_timestamp |-> ParseTimestamp(timestamp),
                     uri |-> uri.s,
                     verb |-> verb,
                     resource_info |-> AnalyzeRequestUri(uri.s),
                     user |-> username,
                     user_agent |-> Get(entry.userAgent, JStr(<<>>)),
                     stage |-> stage]
            IN  Aggregate(counted, ExtractClusterId(username), request_data)

\* the body of the loop of analyze_file for one line
ProcessLine(a, line) ==
    IF IsTruthy(ParseLogLine(line)) THEN AnalyzeEntry(a, ParseLogLine(line))
    ELSE a

\* analyze_file over the lines of a file, stopped by the first exception
RECURSIVE AnalyzeFile(_, _)
AnalyzeFile(a, lines) ==
    IF lines = <<>> \/ a.raised THEN a
    ELSE AnalyzeFile(ProcessLine(a, Head(lines)), Tail(lines))

\* the analyzer as __init__ leaves it
NewAnalyzer == Analyzer(<<>>, <<>>, <<>>, 0, FALSE)

(***************************************************************************)
(* print_summary: what makes it raise                                      *)
(***************************************************************************)
\* f"{verb:8s}" raises for a verb that is no str; system_verbs[req['verb']]
\* raises for an unhashable verb
SummaryRaises(clusters, system_requests) ==
    \/ \E c \in DOMAIN clusters : \E v \in DOMAIN clusters[c].verbs : v.t # "str"
    \/ \E i \in 1..Len(system_requests) : ~Hashable(system_requests[i].verb)

(***************************************************************************)
(* detect_issues                                                           *)
(***************************************************************************)
Issue(kind, ns, ids, overlap, union) ==
    [kind |-> kind, ns |-> ns, clusters |-> ids, overlap |-> overlap, union |-> union]

\* the orders in which a Python set of the elements of S can be iterated
IterationOrders(S) ==
    {f \in [1..Cardinality(S) -> S] : \A x \in S : \E i \in DOMAIN f : f[i] = x}

\* the comparison under a plausible slip: one cluster is enough
NamespaceShared_AtLeastOne(accessing_clusters) == Len(accessing_clusters) >= 1

\* len(accessing_clusters) > 1
NamespaceShared(accessing_clusters) == Len(accessing_clusters) > 1

\* the comparison under a plausible slip: >= for >
SignificantOverlap_AtLeast(overlap) == Cardinality(overlap) >= 5

\* len(overlap) > 5
SignificantOverlap(overlap) == Cardinality(overlap) > 5

\* lines 283-286, all_namespaces iterated in the order ns_order
RECURSIVE NamespaceIssues(_, _, _)
NamespaceIssues(clusters, cluster_order, ns_order) ==
    IF ns_order = <<>> THEN <<>>
    ELSE
    LET ns == Head(ns_order)
        accessing_clusters ==
            SelectSeq(cluster_order,
                      LAMBDA cid : ns \in clusters[cid].namespaces_accessed)
    IN  (IF NamespaceShared(accessing_clusters)
         THEN <<Issue("namespace", ns, accessing_clusters, 0, 0)>>
         ELSE <<>>)
        \o NamespaceIssues(clusters, cluster_order, Tail(ns_order))

\* lines 295-299: cluster1 = cluster_ids[i] against cluster_ids[j:]
RECURSIVE EndpointIssues(_, _, _, _)
EndpointIssues(clusters, cluster_ids, i, j) ==
    IF i > Len(cluster_ids) THEN <<>>
    ELSE IF j > Len(cluster_ids)
    THEN EndpointIssues(clusters, cluster_ids, i + 1, i + 2)
    ELSE
    LET cluster1 == cluster_ids[i]
        cluster2 == cluster_ids[j]
        set1 == DOMAIN clusters[cluster1].endpoints
        set2 == DOMAIN clusters[cluster2].endpoints
        overlap == set1 \cap set2
    IN  (IF SignificantOverlap(overlap)
         THEN <<Issue("endpoint", <<>>, <<cluster1, cluster2>>,
                      Cardinality(overlap), Cardinality(set1 \cup set2))>>
         ELSE <<>>)
        \o EndpointIssues(clusters, cluster_ids, i, j + 1)

\* all_namespaces of lines 275-280
AllNamespaces(clusters) ==
    UNION {clusters[c].namespaces_accessed : c \in DOMAIN clusters}

\* the list issues of detect_issues
DetectIssues(clusters, cluster_order, ns_order) ==
    IF Len(cluster_order) > 1
    THEN NamespaceIssues(clusters, cluster_order, ns_order)
         \o EndpointIssues(clusters, cluster_order, 1, 2)
    ELSE <<>>

(***************************************************************************)
(* The run of main(): state                                                *)
(***************************************************************************)
VARIABLES
    pc,               \* where main() is: "main", "read", "summary", "detect", "exit"
    argc,             \* len(sys.argv)
    file_exists,      \* whether open(filename) succeeds
    consumed,         \* the lines analyze_file has read so far
    clusters,         \* self.clusters
    cluster_order,    \* the insertion order of the keys of self.clusters
    system_requests,  \* self.system_requests
    total_requests,   \* self.total_requests
    issues,           \* the list issues of detect_issues
    exit_code         \* the exit status once pc = "exit", -1 before

vars == <<pc, argc, file_exists, consumed, clusters, cluster_order,
          system_requests, total_requests, issues, exit_code>>

analyzer == <<clusters, cluster_order, system_requests, total_requests>>

(***************************************************************************)
(* Bounds and the input lines                                              *)
(***************************************************************************)
\* lines of the input file
MaxLines == 3
\* distinct endpoints a cluster requests in the isolation check
NumEndpoints == 6

ArgCounts == 1..3

Str_RequestReceived == <<"R","e","q","u","e","s","t","R","e","c","e","i","v","e","d">>
Str_get == <<"g","e","t">>
Str_list == <<"l","i","s","t">>
Str_not_a_time == <<"n","o","t","-","a","-","t","i","m","e">>
Str_serviceaccount == <<"s","e","r","v","i","c","e","a","c","c","o","u","n","t",":">>
\* system:serviceaccount:cattle-system-a:cattle-a
User_cattle_a ==
    Str_system_prefix \o Str_serviceaccount \o Str_cattle_system \o <<"a", ":">>
    \o Str_cattle \o <<"a">>
\* cattle-system-b:cattle-b
User_cattle_b == Str_cattle_system \o <<"b", ":">> \o Str_cattle \o <<"b">>
\* cattle-system-a:cattle-b
User_cattle_a_b == Str_cattle_system \o <<"a", ":">> \o Str_cattle \o <<"b">>
\* system:serviceaccount:cattle-system-c:cattle-d
User_system_cattle_c_d ==
    Str_system_prefix \o Str_serviceaccount \o Str_cattle_system \o <<"c", ":">>
    \o Str_cattle \o <<"d">>
User_alice == <<"a","l","i","c","e">>

Uri_api_v1 == <<"/","a","p","i","/","v","1","/">>
Uri_apis_apps == <<"/","a","p","i","s","/","a","p","p","s">>
Str_pods == <<"p","o","d","s">>
Str_deployments == <<"d","e","p","l","o","y","m","e","n","t","s">>
\* /api/v1/pods
Uri_pods == Uri_api_v1 \o Str_pods
\* /api/v1/pods?watch=true
Uri_pods_watch == Uri_pods \o <<"?">> \o Str_watch_true
\* /api/v1/nodes
Uri_nodes == Uri_api_v1 \o <<"n","o","d","e","s">>
\* /version
Uri_version == <<"/","v","e","r","s","i","o","n">>
\* /api/v1/namespaces/n1/pods
Uri_core_n1_pods == Uri_api_v1 \o Str_namespaces \o <<"/","n","1","/">> \o Str_pods
\* /apis/apps/v1/namespaces/n1
Uri_apps_n1 == Uri_apis_apps \o <<"/","v","1","/">> \o Str_namespaces \o <<"/","n","1">>
\* /apis/apps/v1/namespaces/n2/deployments
Uri_apps_n2_deployments ==
    Uri_apis_apps \o <<"/","v","1","/">> \o Str_namespaces \o <<"/","n","2","/">>
    \o Str_deployments

Line(value) == [json |-> TRUE, value |-> value]
\* a line that json.loads rejects
TextLine == [json |-> FALSE, value |-> None]
\* an audit event with the usual fields
Event(stage, username, uri, verb, ts) ==
    Line(JEntry(ts, JUser(JStr(username)), JStr(uri), JStr(verb), JStr(stage), TRUE))

\* lines that do not decode to an object with fields
OddLines ==
    { TextLine,
      Line(JEntry(Absent, Absent, Absent, Absent, Absent, FALSE)), \* {}
      Line(JList(0)),                                             \* []
      Line(JList(1)) }                                            \* [1]

\* well-formed audit events
EventLines ==
    { Event(Str_ResponseComplete, User_cattle_a, Uri_core_n1_pods, Str_get, JIso("Z", 2)),
      Event(Str_ResponseComplete, User_cattle_a, Uri_pods_watch, Str_get, JIso("Z", 3)),
      Event(Str_ResponseStarted, User_cattle_a, Uri_apps_n1, Str_list, JIso("Z", 1)),
      Event(Str_ResponseComplete, User_cattle_b, Uri_core_n1_pods, Str_get, JIso("Z", 2)),
      Event(Str_ResponseComplete, User_cattle_a_b, Uri_pods, Str_get, JIso("Z", 3)),
      Event(Str_ResponseComplete, User_system_cattle_c_d, Uri_apis_apps, Str_get, JIso("Z", 1)),
      Event(Str_ResponseComplete, Str_system_apiserver, Uri_nodes, Str_get, JIso("Z", 1)),
      Event(Str_ResponseComplete, User_alice, Uri_apps_n2_deployments, Str_list,
            JStr(Str_not_a_time)),
      Event(Str_RequestReceived, User_cattle_a, Uri_pods, Str_get, JIso("Z", 1)) }

\* audit events with missing, null or wrongly typed fields
PartialLines ==
    { \* only the stage
      Line(JEntry(Absent, Absent, Absent, Absent, JStr(Str_ResponseComplete), FALSE)),
      \* no stage, and nothing else usable
      Line(JEntry(JNumber(5), None, None, JList(1), Absent, FALSE)),
      \* "user": null
      Line(JEntry(JIso("Z", 1), None, JStr(Uri_pods), JStr(Str_get),
                  JStr(Str_ResponseComplete), FALSE)),
      \* "requestURI": null
      Line(JEntry(JIso("Z", 1), JUser(JStr(User_cattle_a)), None, JStr(Str_get),
                  JStr(Str_ResponseComplete), FALSE)),
      \* "verb": ["get"]
      Line(JEntry(JIso("Z", 2), JUser(JStr(User_cattle_a)), JStr(Uri_pods), JList(1),
                  JStr(Str_ResponseComplete), FALSE)),
      \* "verb": ["get"] from a system user
      Line(JEntry(JIso("Z", 2), JUser(JStr(Str_kwok_admin)), JStr(Uri_version), JList(1),
                  JStr(Str_ResponseComplete), FALSE)),
      \* "verb": null
      Line(JEntry(JIso("Z", 2), JUser(JStr(User_cattle_b)), JStr(Uri_pods), None,
                  JStr(Str_ResponseComplete), FALSE)),
      \* a timestamp without a zone
      Line(JEntry(JIso("naive", 1), JUser(JStr(User_cattle_a)), JStr(Uri_nodes),
                  JStr(Str_get), JStr(Str_ResponseComplete), FALSE)) }

\* what a line of the input file can be
Lines == OddLines \cup EventLines \cup PartialLines

(***************************************************************************)
(* The run of main(): actions                                              *)
(***************************************************************************)
Init ==
    /\ pc = "main"
    /\ argc \in ArgCounts
    /\ file_exists \in BOOLEAN
    /\ consumed = <<>>
    /\ clusters = <<>>
    /\ cluster_order = <<>>
    /\ system_requests = <<>>
    /\ total_requests = 0
    /\ issues = <<>>
    /\ exit_code = -1

Exit(code) ==
    /\ pc' = "exit"
    /\ exit_code' = code

\* lines 314-317: the usage message
Usage ==
    /\ pc = "main"
    /\ argc # 2
    /\ Exit(1)
    /\ UNCHANGED <<argc, file_exists, consumed, analyzer, issues>>

\* line 184: open() succeeds
OpenFile ==
    /\ pc = "main"
    /\ argc = 2
    /\ file_exists
    /\ pc' = "read"
    /\ UNCHANGED <<argc, file_exists, consumed, analyzer, issues, exit_code>>

\* lines 184, 327-329: open() raises FileNotFoundError
FileNotFound ==
    /\ pc = "main"
    /\ argc = 2
    /\ ~file_exists
    /\ Exit(1)
    /\ UNCHANGED <<argc, file_exists, consumed, analyzer, issues>>

\* lines 185-188: the loop body for `line`; an exception of analyze_entry
\* reaches `except Exception` of main
ReadLine(line) ==
    LET a == ProcessLine(Analyzer(clusters, cluster_order, system_requests,
                                  total_requests, FALSE), line)
    IN  /\ consumed' = Append(consumed, line)
        /\ clusters' = a.clusters
        /\ cluster_order' = a.cluster_order
        /\ system_requests' = a.system_requests
        /\ total_requests' = a.total_requests
        /\ IF a.raised THEN Exit(1) ELSE UNCHANGED <<pc, exit_code>>
        /\ UNCHANGED <<argc, file_exists, issues>>

\* the file holds one more line
AnalyzeLine ==
    /\ pc = "read"
    /\ Len(consumed) < MaxLines
    /\ \E line \in Lines : ReadLine(line)

\* the file has no more lines
EndOfFile ==
    /\ pc = "read"
    /\ pc' = "summary"
    /\ UNCHANGED <<argc, file_exists, consumed, analyzer, issues, exit_code>>

\* line 324: print_summary returns, or raises into `except Exception`
PrintSummary ==
    /\ pc = "summary"
    /\ IF SummaryRaises(clusters, system_requests)
       THEN Exit(1)
       ELSE pc' = "detect" /\ UNCHANGED exit_code
    /\ UNCHANGED <<argc, file_exists, consumed, analyzer, issues>>

\* line 325: detect_issues, then main returns
DetectIssuesStep ==
    /\ pc = "detect"
    /\ \E ns_order \in IterationOrders(AllNamespaces(clusters)) :
        issues' = DetectIssues(clusters, cluster_order, ns_order)
    /\ Exit(0)
    /\ UNCHANGED <<argc, file_exists, consumed, analyzer>>

Next ==
    \/ Usage
    \/ OpenFile
    \/ FileNotFound
    \/ AnalyzeLine
    \/ EndOfFile
    \/ PrintSummary
    \/ DetectIssuesStep

Spec == Init /\ [][Next]_vars

(***************************************************************************)
(* The isolation check on larger inputs: main() on the files in which each *)
(* of three users, one after the other, requests a range of the endpoints  *)
(* 1..NumEndpoints.                                                        *)
(***************************************************************************)
Digits == <<"0","1","2","3","4","5","6","7","8","9">>
Digit(n) == Digits[n + 1]

DetectUsers == <<User_cattle_a, User_cattle_b, User_alice>>

\* endpoint i: /api/v1/r<i> for odd i, /api/v1/namespaces/n<i mod 3>/r<i>
\* for even i
DetectPath(i) ==
    IF i % 2 = 1 THEN Uri_api_v1 \o <<"r", Digit(i)>>
    ELSE Uri_api_v1 \o Str_namespaces \o <<"/", "n", Digit(i % 3), "/", "r", Digit(i)>>

\* the request of user k for endpoint i; the second user watches
DetectLine(k, i) ==
    Event(Str_ResponseComplete, DetectUsers[k],
          IF k = 2 THEN DetectPath(i) \o <<"?">> \o Str_watch_true ELSE DetectPath(i),
          Str_get, JIso("Z", i))

\* the user and the endpoint of the line read last
LastUser == CHOOSE k \in 1..Len(DetectUsers) :
                DetectUsers[k] = consumed[Len(consumed)].value.user.username.s
LastEndpoint == consumed[Len(consumed)].value.requestReceivedTimestamp.sec

\* the file holds one more line: the next endpoint of the same user, or the
\* first endpoint of the range of a later user
AnalyzeRequest ==
    /\ pc = "read"
    /\ \E k \in 1..Len(DetectUsers), i \in 1..NumEndpoints :
        /\ IF consumed = <<>> THEN TRUE
           ELSE (k = LastUser /\ i = LastEndpoint + 1) \/ k > LastUser
        /\ ReadLine(DetectLine(k, i))

InitDetect ==
    /\ Init
    /\ argc = 2
    /\ file_exists

NextDetect ==
    \/ OpenFile
    \/ AnalyzeRequest
    \/ EndOfFile
    \/ PrintSummary
    \/ DetectIssuesStep

SpecDetect == InitDetect /\ [][NextDetect]_vars

(***************************************************************************)
(* Vocabulary of the properties                                            *)
(***************************************************************************)
\* main() returned after the report and the isolation check
Completed == pc = "exit" /\ exit_code = 0

\* the line read last
LastLine == consumed[Len(consumed)]

\* the line decodes to a JSON object
IsRecord(line) == line.json /\ line.value.t = "object"

\* the line decodes to an empty value: null, {}, [], "", 0
DecodesToEmpty(line) ==
    /\ line.json
    /\ \/ line.value.t = "null"
       \/ line.value.t = "object" /\ EntryIsEmpty(line.value)
       \/ line.value.t = "list" /\ line.value.sec = 0
       \/ line.value.t = "number" /\ line.value.sec = 0
       \/ line.value.t = "str" /\ line.value.s = <<>> /\ line.value.iso = ""

\* the stage of a record is ResponseComplete or ResponseStarted
PassesStageFilter(line) ==
    line.value.stage \in {JStr(Str_ResponseComplete), JStr(Str_ResponseStarted)}

\* the tenant of a record with a principal, <<>> for a line without one
Attribution(line) ==
    IF /\ IsRecord(line)
       /\ Get(line.value.user, JUser(Absent)).t = "object"
       /\ Get(Get(line.value.user, JUser(Absent)).username, JStr(<<>>)).t = "str"
    THEN ExtractClusterId(Get(Get(line.value.user, JUser(Absent)).username,
                              JStr(<<>>)).s)
    ELSE <<>>

\* the elements of a sequence
Range(seq) == {seq[i] : i \in DOMAIN seq}

\* the sum of the counts of a Counter
RECURSIVE SumOver(_, _)
SumOver(counter, keys) ==
    IF keys = {} THEN 0
    ELSE LET k == CHOOSE x \in keys : TRUE
         IN  counter[k] + SumOver(counter, keys \ {k})
Total(counter) == SumOver(counter, DOMAIN counter)

\* sub is a subsequence of seq
RECURSIVE IsSubsequence(_, _)
IsSubsequence(sub, seq) ==
    IF sub = <<>> THEN TRUE
    ELSE IF seq = <<>> THEN FALSE
    ELSE IF Head(sub) = Head(seq) THEN IsSubsequence(Tail(sub), Tail(seq))
    ELSE IsSubsequence(sub, Tail(seq))

\* the requests stored anywhere
StoredCount ==
    Len(system_requests)
    + Cardinality({<<c, i>> \in UNION {{c} \X DOMAIN clusters[c].requests :
                                          c \in DOMAIN clusters} : TRUE})

(***************************************************************************)
(* C1.  Whatever the lines of an input that can be opened hold, the run    *)
(* does not abort: it ends with exit code 0.                               *)
(* Refuted: a line [1], or an event whose user is null, raises in          *)
(* analyze_entry, and main exits with 1.                                   *)
(***************************************************************************)
C1_OpenedInputExitsZero ==
    (pc = "exit" /\ argc = 2 /\ file_exists) => exit_code = 0

(***************************************************************************)
(* C2.  total_requests is the number of lines read that decode, the lines  *)
(* that decode to an empty object or another empty value included.         *)
(* Refuted by a line {}.                                                   *)
(***************************************************************************)
C2_CountsEveryDecodedLine ==
    total_requests = Cardinality({i \in DOMAIN consumed : consumed[i].json})

(***************************************************************************)
(* C2, amended.  total_requests is the number of lines read that decode to *)
(* a non-empty value; a line that does not decode, or decodes to an empty  *)
(* value (null, {}, [], "", 0), adds nothing.                              *)
(***************************************************************************)
C2_CountsNonEmptyDecodedLines ==
    total_requests =
        Cardinality({i \in DOMAIN consumed :
                        consumed[i].json /\ ~DecodesToEmpty(consumed[i])})

\* a line {}, a line that is not JSON and a counted line were read
C2_Witness ==
    /\ \E i \in DOMAIN consumed :
          IsRecord(consumed[i]) /\ EntryIsEmpty(consumed[i].value)
    /\ \E i \in DOMAIN consumed : ~consumed[i].json
    /\ \E i \in DOMAIN consumed : IsRecord(consumed[i]) /\ ~DecodesToEmpty(consumed[i])
    /\ total_requests = 1

(***************************************************************************)
(* C3.  Reading a record whose stage is neither ResponseComplete nor       *)
(* ResponseStarted adds one to total_requests and changes no profile and   *)
(* not system_requests.                                                    *)
(* Refuted by the record {}, whose stage is missing: it adds nothing.      *)
(***************************************************************************)
StageDropEffect ==
    /\ total_requests' = total_requests + 1
    /\ clusters' = clusters
    /\ cluster_order' = cluster_order
    /\ system_requests' = system_requests
    /\ pc' = pc

C3_StageDropCountsOnly ==
    [][(consumed' # consumed
        /\ IsRecord(consumed'[Len(consumed')])
        /\ ~PassesStageFilter(consumed'[Len(consumed')]))
       => StageDropEffect]_vars

(***************************************************************************)
(* C3, amended.  Reading a non-empty record whose stage is neither         *)
(* ResponseComplete nor ResponseStarted adds one to total_requests and     *)
(* changes no profile and not system_requests, whatever its principal and  *)
(* URI are.                                                                *)
(***************************************************************************)
C3_NonEmptyStageDropCountsOnly ==
    [][(consumed' # consumed
        /\ IsRecord(consumed'[Len(consumed')])
        /\ ~EntryIsEmpty(consumed'[Len(consumed')].value)
        /\ ~PassesStageFilter(consumed'[Len(consumed')]))
       => StageDropEffect]_vars

\* a RequestReceived record of a tenant was read after one of its requests
\* was stored
C3_Witness ==
    /\ Len(consumed) = 2
    /\ IsRecord(LastLine)
    /\ LastLine.value.stage = JStr(Str_RequestReceived)
    /\ Attribution(LastLine) \in DOMAIN clusters
    /\ Len(clusters[Attribution(LastLine)].requests) = 1
    /\ total_requests = 2

(***************************************************************************)
(* C4.  Reading a record changes no profile but the one of its tenant, and *)
(* system_requests only when the tenant is the system tenant; and the new  *)
(* profile of the tenant is what the record makes of the old one in an     *)
(* analyzer that holds nothing else.  So the records of different tenants  *)
(* commute: two orders that agree on each tenant's own records end in the  *)
(* same profiles.                                                          *)
(***************************************************************************)
\* the analyzer with the profile of c alone
Alone(c) ==
    Analyzer([k \in DOMAIN clusters \cap {c} |-> clusters[k]],
             SelectSeq(cluster_order, LAMBDA k : k = c), <<>>, 0, FALSE)

C4_OnlyOwnProfileChanges ==
    /\ DOMAIN clusters \subseteq DOMAIN clusters'
    /\ \A c \in DOMAIN clusters' :
          (c \notin DOMAIN clusters \/ clusters'[c] # clusters[c])
          => /\ consumed' # consumed
             /\ c = Attribution(consumed'[Len(consumed')])
             /\ clusters'[c] =
                   ProcessLine(Alone(c), consumed'[Len(consumed')]).clusters[c]
    /\ system_requests' # system_requests
       => /\ consumed' # consumed
          /\ Attribution(consumed'[Len(consumed')]) = Str_kwok_system
          /\ clusters' = clusters

C4_NoCrossTenantEffect == [][C4_OnlyOwnProfileChanges]_vars

\* the records of two tenants were read interleaved
C4_Witness ==
    /\ Len(consumed) = 3
    /\ Attribution(consumed[1]) = Attribution(consumed[3])
    /\ Attribution(consumed[1]) # Attribution(consumed[2])
    /\ Attribution(consumed[1]) \in DOMAIN clusters
    /\ Attribution(consumed[2]) \in DOMAIN clusters
    /\ Len(clusters[Attribution(consumed[1])].requests) = 2
    /\ Len(clusters[Attribution(consumed[2])].requests) = 1
    /\ clusters[Attribution(consumed[1])].namespaces_accessed
         # clusters[Attribution(consumed[2])].namespaces_accessed

(***************************************************************************)
(* C5.  Every stored request is attributed by three rules, the first that  *)
(* matches: (1) a principal containing cattle-system-C:cattle-C, the same  *)
(* C twice, belongs to rancher-C; (2) otherwise kwok-admin,                *)
(* system:apiserver and every principal starting with system: belong to    *)
(* the system tenant; (3) every other principal, one whose two marker      *)
(* parts differ included, belongs to unknown.                              *)
(* Refuted: cattle-system-a:cattle-b is attributed to rancher-a.           *)
(***************************************************************************)
\* the C of a marker cattle-system-C:cattle-C that starts at i, else <<>>
SameIdMarkerAt(principal, i) ==
    LET j == IndexFrom(principal, ":", i + Len(Str_cattle_system))
    IN  IF /\ MatchesAt(principal, Str_cattle_system, i)
           /\ j > i + Len(Str_cattle_system)
           /\ MatchesAt(principal,
                        <<":">> \o Str_cattle
                        \o SubSeq(principal, i + Len(Str_cattle_system), j - 1), j)
        THEN SubSeq(principal, i + Len(Str_cattle_system), j - 1)
        ELSE <<>>

SameIdMarkers(principal) ==
    {SameIdMarkerAt(principal, i) : i \in 1..Len(principal)} \ {<<>>}

ThreeRuleTenant(principal) ==
    IF SameIdMarkers(principal) # {}
    THEN Str_rancher \o (CHOOSE id \in SameIdMarkers(principal) : TRUE)
    ELSE IF \/ principal \in {Str_kwok_admin, Str_system_apiserver}
            \/ StartsWith(principal, Str_system_prefix)
    THEN Str_kwok_system
    ELSE Str_unknown

C5_AttributionByThreeRules ==
    /\ \A c \in DOMAIN clusters :
          \A r \in Range(clusters[c].requests) : c = ThreeRuleTenant(r.user)
    /\ \A r \in Range(system_requests) : ThreeRuleTenant(r.user) = Str_kwok_system

(***************************************************************************)
(* C6.  Every stored request whose path starts with apis and has at least  *)
(* 2 segments is classified with api_group = segment 2, version = segment  *)
(* 3 (v1 when absent), and the namespace as for core paths one segment     *)
(* later: after namespaces and a name, namespaced with that name and the   *)
(* resource the segment after the name, or namespaces when there is none;  *)
(* otherwise the resource is the segment after the version.                *)
(* Refuted: /apis/apps/v1/namespaces/n1 gets the resource unknown, and     *)
(* /apis/apps the api_group core.                                          *)
(***************************************************************************)
PathParts(uri) == Split(Strip(BaseUri(uri), "/"), "/")

IsApisPath(uri) == Len(PathParts(uri)) >= 2 /\ PathParts(uri)[1] = Str_apis

MirroredApisInfo(uri) ==
    LET parts == PathParts(uri)
        n == Len(parts)
        version == IF n >= 3 THEN parts[3] ELSE Str_v1
    IN  IF n >= 5 /\ parts[4] = Str_namespaces
        THEN ResourceInfo(parts[2], version,
                          IF n >= 6 THEN parts[6] ELSE Str_namespaces,
                          TRUE, SomeNamespace(parts[5]))
        ELSE ResourceInfo(parts[2], version,
                          IF n >= 4 THEN parts[4] ELSE Str_unknown,
                          FALSE, NoNamespace)

StoredRequests ==
    Range(system_requests)
    \cup UNION {Range(clusters[c].requests) : c \in DOMAIN clusters}

C6_ApisPathsMirrorCorePaths ==
    \A r \in StoredRequests :
        IsApisPath(r.uri) => r.resource_info = MirroredApisInfo(r.uri)

(***************************************************************************)
(* C7.  After the isolation check, a namespace N has a namespace finding   *)
(* iff at least 2 profiles exist and at least 2 of them accessed N; it has *)
(* exactly one, which lists exactly the tenants that accessed N; with 0 or *)
(* 1 profile there is no finding of any kind.                              *)
(***************************************************************************)
NamespaceFindings(N) ==
    {i \in DOMAIN issues : issues[i].kind = "namespace" /\ issues[i].ns = N}

Accessing(N) == {c \in DOMAIN clusters : N \in clusters[c].namespaces_accessed}

NamespacesSeen ==
    UNION {clusters[c].namespaces_accessed : c \in DOMAIN clusters}
    \cup {issues[i].ns : i \in {j \in DOMAIN issues : issues[j].kind = "namespace"}}

C7_NamespaceOverlapFindings ==
    Completed =>
        /\ Cardinality(DOMAIN clusters) <= 1 => issues = <<>>
        /\ \A N \in NamespacesSeen :
              /\ Cardinality(NamespaceFindings(N)) =
                    IF Cardinality(DOMAIN clusters) >= 2
                       /\ Cardinality(Accessing(N)) >= 2
                    THEN 1 ELSE 0
              /\ \A i \in NamespaceFindings(N) :
                    /\ Range(issues[i].clusters) = Accessing(N)
                    /\ Len(issues[i].clusters) = Cardinality(Accessing(N))

\* three profiles, a namespace that two of them accessed and has a finding,
\* and a namespace that one accessed and has none
C7_Witness ==
    /\ Completed
    /\ Cardinality(DOMAIN clusters) = 3
    /\ \E N \in NamespacesSeen :
          Cardinality(Accessing(N)) = 2 /\ NamespaceFindings(N) # {}
    /\ \E N \in NamespacesSeen :
          Cardinality(Accessing(N)) = 1 /\ NamespaceFindings(N) = {}

(***************************************************************************)
(* C8.  After the isolation check, two distinct tenants have an endpoint   *)
(* finding iff they requested more than 5 common endpoint paths (the URI   *)
(* without its query string); a pair has at most one finding, and no       *)
(* finding pairs a tenant with itself.                                     *)
(***************************************************************************)
\* the URI up to its first ?
PathOf(uri) ==
    IF IndexFrom(uri, "?", 1) = 0 THEN uri
    ELSE SubSeq(uri, 1, IndexFrom(uri, "?", 1) - 1)

RequestedPaths(c) == {PathOf(r.uri) : r \in Range(clusters[c].requests)}

SharedPaths(a, b) == RequestedPaths(a) \cap RequestedPaths(b)

EndpointFindings(a, b) ==
    {i \in DOMAIN issues :
        issues[i].kind = "endpoint" /\ Range(issues[i].clusters) = {a, b}}

C8_EndpointOverlapFindings ==
    Completed =>
        /\ \A a \in DOMAIN clusters, b \in DOMAIN clusters :
              a # b => Cardinality(EndpointFindings(a, b)) =
                           IF Cardinality(SharedPaths(a, b)) > 5 THEN 1 ELSE 0
        /\ \A i \in DOMAIN issues :
              issues[i].kind = "endpoint"
              => /\ Len(issues[i].clusters) = 2
                 /\ issues[i].clusters[1] # issues[i].clusters[2]
                 /\ Range(issues[i].clusters) \subseteq DOMAIN clusters

\* a pair with exactly 6 common paths and a finding, and a pair with exactly
\* 5 and none
C8_Witness ==
    /\ Completed
    /\ \E a \in DOMAIN clusters, b \in DOMAIN clusters :
          /\ a # b
          /\ Cardinality(SharedPaths(a, b)) = 6
          /\ Cardinality(EndpointFindings(a, b)) = 1
    /\ \E a \in DOMAIN clusters, b \in DOMAIN clusters :
          /\ a # b
          /\ Cardinality(SharedPaths(a, b)) = 5
          /\ EndpointFindings(a, b) = {}

(***************************************************************************)
(* C9.  In every profile first_seen and last_seen are both None or both    *)
(* set, first_seen <= last_seen, and they are the minimum and the maximum  *)
(* of the parsed timestamps of the requests of the profile.                *)
(* Refuted: a request whose verb is a list, or whose timestamp has no zone *)
(* while first_seen has one, is stored with its parsed timestamp and       *)
(* analyze_entry raises before the bounds are widened (the abort of C1).   *)
(***************************************************************************)
ParsedStamps(c) ==
    {r.parsed_timestamp : r \in Range(clusters[c].requests)} \ {NoTime}

C9_SeenBoundsAreMinAndMax ==
    \A c \in DOMAIN clusters :
        LET d == clusters[c]
        IN  /\ (d.first_seen = NoTime) <=> (d.last_seen = NoTime)
            /\ d.first_seen # NoTime => d.first_seen.at <= d.last_seen.at
            /\ IF ParsedStamps(c) = {} THEN d.first_seen = NoTime
               ELSE /\ d.first_seen \in ParsedStamps(c)
                    /\ d.last_seen \in ParsedStamps(c)
                    /\ \A t \in ParsedStamps(c) :
                          /\ t.kind = d.first_seen.kind
                          /\ d.first_seen.at <= t.at
                          /\ t.at <= d.last_seen.at

(***************************************************************************)
(* C10.  Every record that passed the stage filter is stored once, in      *)
(* system_requests or in the requests of the profile of its tenant, and no *)
(* profile is keyed by kwok-system; total_requests >= the number of stored *)
(* requests, with equality exactly when the stage filter dropped no        *)
(* record; in every profile the endpoint, verb and resource counts each    *)
(* sum to len(requests), and watch_streams is a subsequence of requests.   *)
(* Refuted: a request whose verb is a list is appended to requests and     *)
(* counted as an endpoint, and analyze_entry raises before the verb and    *)
(* the resource are counted; a record whose user is null passes the stage  *)
(* filter and is stored nowhere (the abort of C1).                         *)
(***************************************************************************)
AnalyzedLines ==
    {i \in DOMAIN consumed :
        IsRecord(consumed[i]) /\ PassesStageFilter(consumed[i])}

DroppedLines ==
    {i \in DOMAIN consumed :
        /\ IsRecord(consumed[i])
        /\ ~EntryIsEmpty(consumed[i].value)
        /\ ~PassesStageFilter(consumed[i])}

C10_StoredOnceAndCounted ==
    /\ Str_kwok_system \notin DOMAIN clusters
    /\ StoredCount = Cardinality(AnalyzedLines)
    /\ \A c \in DOMAIN clusters :
          \A r \in Range(clusters[c].requests) : ExtractClusterId(r.user) = c
    /\ \A r \in Range(system_requests) : ExtractClusterId(r.user) = Str_kwok_system
    /\ total_requests >= StoredCount
    /\ (total_requests = StoredCount) <=> (DroppedLines = {})
    /\ \A c \in DOMAIN clusters :
          /\ Total(clusters[c].endpoints) = Len(clusters[c].requests)
          /\ Total(clusters[c].verbs) = Len(clusters[c].requests)
          /\ Total(clusters[c].resources) = Len(clusters[c].requests)
          /\ IsSubsequence(clusters[c].watch_streams, clusters[c].requests)

=============================================================================
